---- MODULE Spec2Model ----
(***************************************************************************)
(* Model of the error-response normalisation of django-rest-utils:         *)
(* views/view.py (DjangoViewAPIMixin), logging/debug.py (DebuggerMixin),   *)
(* logging/logging.py (TerminalLoggingMixin) and exceptions.py.            *)
(*                                                                         *)
(* Python values are tagged records: t is the Python type, v the value.    *)
(* A dict is PyDict(f) with f a function from its keys to Python values.   *)
(* The result of a call is Ok(value) or Raised(exception).                 *)
(***************************************************************************)
EXTENDS Integers, Sequences, FiniteSets, TLC

\* ------------------------------------------------------------------------
\* Bounds of the model
\* ------------------------------------------------------------------------

\* longest caller-supplied errors list
MaxErrors == 1

\* ------------------------------------------------------------------------
\* Python values
\* ------------------------------------------------------------------------

PyNone == [t |-> "NoneType"]

PyStr(s) == [t |-> "str", v |-> s]

PyInt(n) == [t |-> "int", v |-> n]

PyList(q) == [t |-> "list", v |-> q]

PyDict(f) == [t |-> "dict", v |-> f]

IsNone(x) == x.t = "NoneType"

IsStr(x) == x.t = "str"

IsInt(x) == x.t = "int"

IsDict(x) == x.t = "dict"

\* Python truthiness of the values used as `errors`: None and [] are falsy
Truthy(x) ==
    CASE x.t = "NoneType" -> FALSE
      [] x.t = "list" -> Len(x.v) > 0
      [] x.t = "str" -> x.v # ""
      [] x.t = "int" -> x.v # 0
      [] OTHER -> TRUE

Ok(x) == [raised |-> FALSE, val |-> x]

Raised(e) == [raised |-> TRUE, val |-> e]

\* d[k] = x on a dict: the key is added when absent, the others are kept
DictSet(d, k, x) ==
    PyDict([j \in (DOMAIN d.v) \cup {k} |-> IF j = k THEN x ELSE d.v[j]])

\* x.get(k): AttributeError on a value that has no .get, None for a missing key
DictGet(x, k) ==
    IF IsDict(x)
    THEN Ok(IF k \in DOMAIN x.v THEN x.v[k] ELSE PyNone)
    ELSE Raised([cls |-> "AttributeError", msg |-> "get", badstr |-> FALSE])

\* ------------------------------------------------------------------------
\* exceptions.py
\* ------------------------------------------------------------------------

\* An exception instance: its class, its message, and whether its __str__
\* fails (a subclass whose __str__ raises or returns a non-string).
Exc(cls, msg, badstr) == [cls |-> cls, msg |-> msg, badstr |-> badstr]

HumanReadableError(msg) == Exc("HumanReadableError", msg, FALSE)

\* str(exception)
Str(e) ==
    IF e.badstr
    THEN Raised(Exc("TypeError", "__str__ returned non-string", FALSE))
    ELSE Ok(PyStr(e.msg))

\* ------------------------------------------------------------------------
\* rest_framework.status, as imported by views/view.py
\* ------------------------------------------------------------------------

NotComparable == Exc("TypeError", "'<=' not supported", FALSE)

\* 200 <= code <= 299; comparing a non-number with an int raises TypeError
is_success(code) ==
    IF IsInt(code) THEN Ok(200 <= code.v /\ code.v <= 299) ELSE Raised(NotComparable)

\* 400 <= code <= 499
is_client_error(code) ==
    IF IsInt(code) THEN Ok(400 <= code.v /\ code.v <= 499) ELSE Raised(NotComparable)

\* 500 <= code <= 599
is_server_error(code) ==
    IF IsInt(code) THEN Ok(500 <= code.v /\ code.v <= 599) ELSE Raised(NotComparable)

HTTP_500_INTERNAL_SERVER_ERROR == 500

\* ------------------------------------------------------------------------
\* logging/logging.py and logging/debug.py
\* ------------------------------------------------------------------------

\* TerminalLoggingMixin.pprint_exception: pprint_data(data=str(exception)).
\* The terminal is not modelled; the call fails exactly when str() does.
pprint_exception(exception) ==
    LET s == Str(exception) IN IF s.raised THEN s ELSE Ok(PyNone)

\* DebuggerMixin.print_debug_single_line: formats the exception into one line;
\* on failure prints the failure and then the exception itself, unguarded.
print_debug_single_line(exception_object) ==
    LET line == Str(exception_object)
    IN  IF line.raised
        THEN LET first == pprint_exception(line.val)
             IN  IF first.raised THEN first ELSE pprint_exception(exception_object)
        ELSE Ok(PyNone)

\* DebuggerMixin.print_debug_multiline: same shape, str(exception_object) on
\* its third line
print_debug_multiline(exception_object) ==
    LET line == Str(exception_object)
    IN  IF line.raised
        THEN LET first == pprint_exception(line.val)
             IN  IF first.raised THEN first ELSE pprint_exception(exception_object)
        ELSE Ok(PyNone)

\* DebuggerMixin.debug_exception.  Whatever fails inside the try block (no
\* exception being handled, a location outside the project root, a printing
\* failure) lands in the except clause, which prints the failure and then
\* str(exception) outside of any guard.
debug_exception(exception, multiline) ==
    LET body == IF multiline
                THEN print_debug_multiline(exception)
                ELSE print_debug_single_line(exception)
    IN  IF body.raised
        THEN LET first == pprint_exception(body.val)
             IN  IF first.raised THEN first ELSE pprint_exception(exception)
        ELSE Ok(PyNone)

\* ------------------------------------------------------------------------
\* views/view.py: DjangoViewAPIMixin, the methods without side effect
\* ------------------------------------------------------------------------

\* class attribute status = 200
DefaultStatus == 200

\* class attribute CONTENT_TYPE
CONTENT_TYPE == PyStr("application/json")

\* mutant: errors defaults to an empty list
get_default_error_dict_empty_errors ==
    PyDict([title |-> PyStr("Error"),
            message |-> PyStr("Unable to process request."),
            errors |-> PyList(<<>>)])

\* mutant: the fallback message is the one of server_error_response
get_default_error_dict_server_message ==
    PyDict([title |-> PyStr("Error"),
            message |-> PyStr("Please contact developer."),
            errors |-> PyNone])

get_default_error_dict ==
    PyDict([title |-> PyStr("Error"),
            message |-> PyStr("Unable to process request."),
            errors |-> PyNone])

\* mutant: an empty content type is replaced by the default as well
get_content_type_truthy(content_type) ==
    IF Truthy(content_type) THEN content_type ELSE CONTENT_TYPE

get_content_type(content_type) ==
    IF ~IsNone(content_type) THEN content_type ELSE CONTENT_TYPE

\* self.RESPONSE(data=data, status=status, content_type=content_type): the
\* framework's response object, holding what it was given
get_response(data, status, content_type) ==
    [data |-> data, status |-> status, content_type |-> content_type]

\* mutant: every exception counts as human readable
is_error_human_readable_any(exception) == TRUE

is_error_human_readable(exception) == exception.cls = "HumanReadableError"

\* mutant: the keys only have to be present
is_valid_error_dict_keys_only(error_data) ==
    IF IsDict(error_data)
    THEN "title" \in DOMAIN error_data.v /\ "message" \in DOMAIN error_data.v
    ELSE FALSE

\* mutant: the message is not looked at
is_valid_error_dict_title_only(error_data) ==
    LET title == DictGet(error_data, "title")
    IN  IF title.raised THEN FALSE ELSE IsDict(error_data) /\ IsStr(title.val)

\* all((isinstance(error_data, dict), isinstance(error_data.get("title"), str),
\* isinstance(error_data.get("message"), str))): the tuple is built first, so
\* a value without .get raises and the except clause answers False
is_valid_error_dict(error_data) ==
    LET title == DictGet(error_data, "title")
        message == DictGet(error_data, "message")
    IN  IF title.raised \/ message.raised
        THEN FALSE
        ELSE IsDict(error_data) /\ IsStr(title.val) /\ IsStr(message.val)

\* is_client_error(code) or is_server_error(code)
\* mutant: only client errors count
is_valid_error_code_client_only(code) == is_client_error(code)

is_valid_error_code(code) ==
    LET c == is_client_error(code)
    IN  IF c.raised THEN c
        ELSE IF c.val THEN Ok(TRUE) ELSE is_server_error(code)

\* mutant: no default when neither status is an error code
get_error_status_code_no_default(self_status, code) ==
    LET own == is_valid_error_code(self_status)
    IN  IF own.raised THEN PyInt(400)
        ELSE IF own.val THEN self_status
        ELSE LET asked == is_valid_error_code(code)
             IN  IF asked.raised THEN PyInt(400) ELSE code

\* mutant: the requested code is looked at before self.status
get_error_status_code_requested_first(self_status, code) ==
    LET asked == is_valid_error_code(code)
    IN  IF asked.raised THEN PyInt(400)
        ELSE IF asked.val THEN code
        ELSE LET own == is_valid_error_code(self_status)
             IN  IF own.raised THEN PyInt(400)
                 ELSE IF own.val THEN self_status ELSE PyInt(400)

\* mutant: self.status is not looked at
get_error_status_code_ignores_self(self_status, code) ==
    LET asked == is_valid_error_code(code)
    IN  IF asked.raised THEN PyInt(400)
        ELSE IF asked.val THEN code ELSE PyInt(400)

\* get_error_status_code, with self.status passed in
get_error_status_code(self_status, code) ==
    LET own == is_valid_error_code(self_status)
    IN  IF own.raised THEN PyInt(400)
        ELSE IF own.val THEN self_status
        ELSE LET asked == is_valid_error_code(code)
             IN  IF asked.raised THEN PyInt(400)
                 ELSE IF asked.val THEN code ELSE PyInt(400)

\* mutant: the message is overwritten whatever the class of the exception
get_error_data_always_writes(exception, error_data) ==
    LET valid == is_valid_error_dict(error_data)
        chosen == IF valid THEN error_data ELSE get_default_error_dict
        exception_message == Str(exception)
    IN  IF exception_message.raised
        THEN [val |-> get_default_error_dict, arg |-> error_data]
        ELSE LET written == DictSet(chosen, "message", exception_message.val)
             IN  [val |-> written, arg |-> IF valid THEN written ELSE error_data]

\* mutant: no fallback when str(exception) fails
get_error_data_no_fallback(exception, error_data) ==
    LET valid == is_valid_error_dict(error_data)
        chosen == IF valid THEN error_data ELSE get_default_error_dict
    IN  IF is_error_human_readable(exception)
        THEN LET exception_message == Str(exception)
             IN  IF exception_message.raised
                 THEN [val |-> chosen, arg |-> error_data]
                 ELSE LET written == DictSet(chosen, "message", exception_message.val)
                      IN  [val |-> written,
                           arg |-> IF valid THEN written ELSE error_data]
        ELSE [val |-> chosen, arg |-> error_data]

\* get_error_data.  val is the returned dict; arg is the object the caller
\* passed, as it is after the call (a valid dict is used as it is, so writing
\* the message into it writes into the caller's object).
get_error_data(exception, error_data) ==
    LET valid == is_valid_error_dict(error_data)
        chosen == IF valid THEN error_data ELSE get_default_error_dict
    IN  IF is_error_human_readable(exception)
        THEN LET exception_message == Str(exception)
             IN  IF exception_message.raised
                 THEN [val |-> get_default_error_dict, arg |-> error_data]
                 ELSE LET written == DictSet(chosen, "message", exception_message.val)
                      IN  [val |-> written,
                           arg |-> IF valid THEN written ELSE error_data]
        ELSE [val |-> chosen, arg |-> error_data]

\* ------------------------------------------------------------------------
\* Inputs
\* ------------------------------------------------------------------------

Handlers == {"A"}

\* exceptions: plain and human readable ones, with a working or a failing
\* __str__
ExceptionsOf(msgs) ==
    {Exc(c, m, b) : c \in {"Exception", "HumanReadableError"}, m \in msgs, b \in BOOLEAN}

Exceptions == ExceptionsOf({"X"})

\* status arguments: success, client error, server error, and a non-integer
Statuses == {PyInt(200), PyInt(403), PyInt(500), PyStr("x")}

\* caller-supplied errors lists, [] included
ErrorLists == {PyList(q) : q \in UNION {[1..n -> {"e"}] : n \in 0..MaxErrors}}

ContentTypes == {PyNone, PyStr("application/xml")}

\* error_data arguments of error_response: omitted, no mapping, valid with
\* and without errors, invalid
ErrorDataArgs ==
    {PyNone, PyList(<<>>),
     PyDict([title |-> PyStr("T"), message |-> PyStr("M")]),
     PyDict([title |-> PyStr("T"), message |-> PyStr("M"), errors |-> PyList(<<"e">>)]),
     PyDict([title |-> PyNone, message |-> PyNone])}

\* settings.DEBUG off, or on with DEBUG_MULTILINE unset or set
DebugModes == {"off", "single", "multi"}

Titles == {PyStr("T"), PyNone}

Messages == {PyStr("M")}

SuccessData == {PyDict([a |-> PyInt(1)]), PyList(<<>>)}

\* status arguments of success_response: the edges of the success range too
SuccessStatuses ==
    Statuses \cup {PyInt(n) : n \in {199, 201, 299, 300, 701}}

\* ------------------------------------------------------------------------
\* State
\* ------------------------------------------------------------------------

VARIABLES
    status,      \* status[h]: the status attribute seen through handler h
    error_dict,  \* the dict object bound to the class attribute error_dict
    pc,          \* "idle": no call in progress; "returned": a call has ended
                 \* and its outcome is with the caller
    call,        \* the call that ended: operation, handler and arguments
    ret,         \* its outcome: raised, val (response, value or exception)
                 \* and arg (the error_data object after the call)
    committed    \* history: committed[h] is the status of the first response
                 \* error_response returned on handler h, None before

vars == <<status, error_dict, pc, call, ret, committed>>

Outcome(r, a) == [raised |-> r.raised, val |-> r.val, arg |-> a]

NoCall == [op |-> "none"]

Init ==
    /\ status = [h \in Handlers |-> PyInt(DefaultStatus)]
    /\ error_dict = PyDict([title |-> PyStr("Error"),
                            message |-> PyStr("Unable to process request."),
                            errors |-> PyNone])
    /\ pc = "idle"
    /\ call = NoCall
    /\ ret = Outcome(Ok(PyNone), PyNone)
    /\ committed = [h \in Handlers |-> PyNone]

\* ------------------------------------------------------------------------
\* views/view.py: DjangoViewAPIMixin, the operations
\* ------------------------------------------------------------------------

\* mutant: the status is passed on as it is
SuccessResponse_no_coercion(h, data, st, content_type) ==
    LET ok == is_success(st)
    IN  /\ pc = "idle"
        /\ pc' = "returned"
        /\ call' = [op |-> "success_response", h |-> h, data |-> data,
                    status |-> st, content_type |-> content_type]
        /\ ret' = IF ok.raised
                  THEN Outcome(ok, PyNone)
                  ELSE Outcome(Ok(get_response(data, st, get_content_type(content_type))),
                               PyNone)
        /\ UNCHANGED <<status, error_dict, committed>>

\* mutant: the status of the response is stored on the handler
SuccessResponse_stores_status(h, data, st, content_type) ==
    LET ok == is_success(st)
        st2 == IF ~ok.val THEN PyInt(200) ELSE st
    IN  /\ pc = "idle"
        /\ pc' = "returned"
        /\ call' = [op |-> "success_response", h |-> h, data |-> data,
                    status |-> st, content_type |-> content_type]
        /\ ret' = IF ok.raised
                  THEN Outcome(ok, PyNone)
                  ELSE Outcome(Ok(get_response(data, st2, get_content_type(content_type))),
                               PyNone)
        /\ status' = IF ok.raised THEN status ELSE [status EXCEPT ![h] = st2]
        /\ UNCHANGED <<error_dict, committed>>

\* success_response(data, status, content_type)
SuccessResponse(h, data, st, content_type) ==
    LET ok == is_success(st)
        st2 == IF ~ok.val THEN PyInt(200) ELSE st
    IN  /\ pc = "idle"
        /\ pc' = "returned"
        /\ call' = [op |-> "success_response", h |-> h, data |-> data,
                    status |-> st, content_type |-> content_type]
        /\ ret' = IF ok.raised
                  THEN Outcome(ok, PyNone)
                  ELSE Outcome(Ok(get_response(data, st2, get_content_type(content_type))),
                               PyNone)
        /\ UNCHANGED <<status, error_dict, committed>>

\* mutant: the payload of the response is stored as the handler's error_dict
error_response_stores_payload(self_status, self_error_dict, debug, exception, error_data, own, st, content_type) ==
    LET dbg == IF debug # "off"
               THEN debug_exception(exception, debug = "multi")
               ELSE Ok(PyNone)
        shared == own \/ IsNone(error_data)
        data0 == IF IsNone(error_data) THEN self_error_dict ELSE error_data
        st0 == IF IsNone(st) THEN self_status ELSE st
        got == get_error_data(exception, data0)
        code == get_error_status_code(self_status, st0)
        response == get_response(got.val, code, get_content_type(content_type))
    IN  IF dbg.raised
        THEN [ret |-> dbg, error_dict |-> self_error_dict, arg |-> error_data]
        ELSE [ret |-> Ok(response),
              error_dict |-> got.val,
              arg |-> IF shared THEN error_data ELSE got.arg]

\* error_response on a handler whose status is self_status and whose
\* error_dict is self_error_dict.  own says that the error_data argument is
\* the handler's error_dict object itself.  ret is the outcome, error_dict the
\* handler's dict after the call, arg the caller's error_data after the call.
error_response(self_status, self_error_dict, debug, exception, error_data, own, st, content_type) ==
    LET dbg == IF debug # "off"
               THEN debug_exception(exception, debug = "multi")
               ELSE Ok(PyNone)
        shared == own \/ IsNone(error_data)
        data0 == IF IsNone(error_data) THEN self_error_dict ELSE error_data
        st0 == IF IsNone(st) THEN self_status ELSE st
        got == get_error_data(exception, data0)
        code == get_error_status_code(self_status, st0)
        response == get_response(got.val, code, get_content_type(content_type))
    IN  IF dbg.raised
        THEN [ret |-> dbg, error_dict |-> self_error_dict, arg |-> error_data]
        ELSE [ret |-> Ok(response),
              error_dict |-> IF shared THEN got.arg ELSE self_error_dict,
              arg |-> IF shared THEN error_data ELSE got.arg]

\* mutant: the status of the response is stored on the handler
ErrorResponse_commits(h, debug, exception, error_data, st, content_type) ==
    LET r == error_response(status[h], error_dict, debug, exception, error_data,
                            FALSE, st, content_type)
    IN  /\ pc = "idle"
        /\ pc' = "returned"
        /\ call' = [op |-> "error_response", h |-> h, debug |-> debug,
                    exception |-> exception, error_data |-> error_data,
                    status |-> st, content_type |-> content_type]
        /\ ret' = Outcome(r.ret, r.arg)
        /\ error_dict' = r.error_dict
        /\ committed' = IF ~r.ret.raised /\ IsNone(committed[h])
                        THEN [committed EXCEPT ![h] = r.ret.val.status]
                        ELSE committed
        /\ status' = IF r.ret.raised THEN status
                     ELSE [status EXCEPT ![h] = r.ret.val.status]

ErrorResponse(h, debug, exception, error_data, st, content_type) ==
    LET r == error_response(status[h], error_dict, debug, exception, error_data,
                            FALSE, st, content_type)
    IN  /\ pc = "idle"
        /\ pc' = "returned"
        /\ call' = [op |-> "error_response", h |-> h, debug |-> debug,
                    exception |-> exception, error_data |-> error_data,
                    status |-> st, content_type |-> content_type]
        /\ ret' = Outcome(r.ret, r.arg)
        /\ error_dict' = r.error_dict
        /\ committed' = IF ~r.ret.raised /\ IsNone(committed[h])
                        THEN [committed EXCEPT ![h] = r.ret.val.status]
                        ELSE committed
        /\ UNCHANGED status

\* mutant: only an omitted errors argument is replaced by [str(exception)]
ServerErrorResponse_none_only(h, debug, exception, title, message, st, errors) ==
    LET d1 == DictSet(DictSet(error_dict, "title", title), "message", message)
        text == Str(exception)
        failed == IsNone(errors) /\ text.raised
        d2 == DictSet(d1, "errors",
                      IF ~IsNone(errors) THEN errors ELSE PyList(<<text.val.v>>))
        r == error_response(st, d2, debug, exception, d2, TRUE, st, PyNone)
    IN  /\ pc = "idle"
        /\ pc' = "returned"
        /\ call' = [op |-> "server_error_response", h |-> h, debug |-> debug,
                    exception |-> exception, title |-> title, message |-> message,
                    status |-> st, errors |-> errors]
        /\ status' = [status EXCEPT ![h] = st]
        /\ error_dict' = IF failed THEN d1 ELSE r.error_dict
        /\ ret' = IF failed THEN Outcome(text, PyNone) ELSE Outcome(r.ret, PyNone)
        /\ UNCHANGED committed

\* mutant: the status argument is not stored on the handler first
ServerErrorResponse_keeps_status(h, debug, exception, title, message, st, errors) ==
    LET d1 == DictSet(DictSet(error_dict, "title", title), "message", message)
        text == Str(exception)
        failed == ~Truthy(errors) /\ text.raised
        d2 == DictSet(d1, "errors",
                      IF Truthy(errors) THEN errors ELSE PyList(<<text.val.v>>))
        r == error_response(status[h], d2, debug, exception, d2, TRUE, st, PyNone)
    IN  /\ pc = "idle"
        /\ pc' = "returned"
        /\ call' = [op |-> "server_error_response", h |-> h, debug |-> debug,
                    exception |-> exception, title |-> title, message |-> message,
                    status |-> st, errors |-> errors]
        /\ error_dict' = IF failed THEN d1 ELSE r.error_dict
        /\ ret' = IF failed THEN Outcome(text, PyNone) ELSE Outcome(r.ret, PyNone)
        /\ UNCHANGED <<status, committed>>

\* server_error_response(exception, title, message, status, errors)
ServerErrorResponse(h, debug, exception, title, message, st, errors) ==
    LET d1 == DictSet(DictSet(error_dict, "title", title), "message", message)
        text == Str(exception)
        failed == ~Truthy(errors) /\ text.raised
        d2 == DictSet(d1, "errors",
                      IF Truthy(errors) THEN errors ELSE PyList(<<text.val.v>>))
        r == error_response(st, d2, debug, exception, d2, TRUE, st, PyNone)
    IN  /\ pc = "idle"
        /\ pc' = "returned"
        /\ call' = [op |-> "server_error_response", h |-> h, debug |-> debug,
                    exception |-> exception, title |-> title, message |-> message,
                    status |-> st, errors |-> errors]
        /\ status' = [status EXCEPT ![h] = st]
        /\ error_dict' = IF failed THEN d1 ELSE r.error_dict
        /\ ret' = IF failed THEN Outcome(text, PyNone) ELSE Outcome(r.ret, PyNone)
        /\ UNCHANGED committed

\* mutant: an error status the handler already holds is kept
RaiseError_keeps_error_status(h, title, message, st, errors) ==
    LET own == is_valid_error_code(status[h])
    IN  /\ pc = "idle"
        /\ pc' = "returned"
        /\ call' = [op |-> "raise_error", h |-> h, title |-> title, message |-> message,
                    status |-> st, errors |-> errors]
        /\ status' = IF ~own.raised /\ own.val THEN status ELSE [status EXCEPT ![h] = st]
        /\ error_dict' = DictSet(DictSet(DictSet(error_dict, "title", title),
                                         "message", message),
                                 "errors", IF Truthy(errors) THEN errors ELSE PyList(<<>>))
        /\ ret' = Outcome(Raised(HumanReadableError(message.v)), PyNone)
        /\ UNCHANGED committed

\* raise_error(title, message, status, errors)
RaiseError(h, title, message, st, errors) ==
    /\ pc = "idle"
    /\ pc' = "returned"
    /\ call' = [op |-> "raise_error", h |-> h, title |-> title, message |-> message,
                status |-> st, errors |-> errors]
    /\ status' = [status EXCEPT ![h] = st]
    /\ error_dict' = DictSet(DictSet(DictSet(error_dict, "title", title),
                                     "message", message),
                             "errors", IF Truthy(errors) THEN errors ELSE PyList(<<>>))
    /\ ret' = Outcome(Raised(HumanReadableError(message.v)), PyNone)
    /\ UNCHANGED committed

\* get_default_error_dict(), called on handler h
GetDefaultErrorDict(h) ==
    /\ pc = "idle"
    /\ pc' = "returned"
    /\ call' = [op |-> "get_default_error_dict", h |-> h]
    /\ ret' = Outcome(Ok(get_default_error_dict), PyNone)
    /\ UNCHANGED <<status, error_dict, committed>>

\* get_content_type(content_type), called on handler h
GetContentType(h, content_type) ==
    /\ pc = "idle"
    /\ pc' = "returned"
    /\ call' = [op |-> "get_content_type", h |-> h, content_type |-> content_type]
    /\ ret' = Outcome(Ok(get_content_type(content_type)), PyNone)
    /\ UNCHANGED <<status, error_dict, committed>>

\* The caller takes the outcome (the view returns the response, or its except
\* clause has caught the exception); the handler is ready for the next call.
Return ==
    /\ pc = "returned"
    /\ pc' = "idle"
    /\ call' = NoCall
    /\ ret' = Outcome(Ok(PyNone), PyNone)
    /\ UNCHANGED <<status, error_dict, committed>>

Next ==
    \/ \E h \in Handlers, data \in SuccessData, st \in SuccessStatuses,
          ct \in ContentTypes :
           SuccessResponse(h, data, st, ct)
    \/ \E h \in Handlers, debug \in DebugModes, e \in Exceptions, d \in ErrorDataArgs,
          st \in Statuses \cup {PyNone}, ct \in ContentTypes :
           ErrorResponse(h, debug, e, d, st, ct)
    \/ \E h \in Handlers, debug \in DebugModes, e \in Exceptions,
          title \in {PyStr("Server Error"), PyStr("T")},
          message \in {PyStr("Please contact developer."), PyStr("M")},
          st \in Statuses, errors \in ErrorLists \cup {PyNone} :
           ServerErrorResponse(h, debug, e, title, message, st, errors)
    \/ \E h \in Handlers, title \in Titles, message \in Messages, st \in Statuses,
          errors \in ErrorLists \cup {PyNone} :
           RaiseError(h, title, message, st, errors)
    \/ \E h \in Handlers : GetDefaultErrorDict(h)
    \/ \E h \in Handlers, ct \in ContentTypes \cup {PyStr("")} : GetContentType(h, ct)
    \/ Return

Spec == Init /\ [][Next]_vars

\* ------------------------------------------------------------------------
\* The getters of DjangoViewAPIMixin, called on their own
\* ------------------------------------------------------------------------

\* handler statuses and requested codes: every class of status code with
\* the edges of the error range, and non-integers
GetterStatuses ==
    {PyInt(n) : n \in {100, 200, 301, 399, 400, 403, 404, 499, 500, 599, 600}}
        \cup {PyStr("x"), PyNone}

\* dicts with each of title, message and errors absent or present, title and
\* message being None, a string or a number
Payloads ==
    {PyDict(f) :
        f \in UNION {[K -> {PyNone, PyStr("T"), PyStr("M"), PyInt(7), PyList(<<"e">>)}] :
                       K \in SUBSET {"title", "message", "errors"}}}

\* values that are no mapping
NonMappings == {PyNone, PyStr("oops"), PyList(<<>>), PyInt(7)}

GetterExceptions == ExceptionsOf({"X", "Y"})

\* a handler whose status was set by earlier calls
InitGetters ==
    /\ status \in [Handlers -> GetterStatuses]
    /\ error_dict = PyDict([title |-> PyStr("Error"),
                            message |-> PyStr("Unable to process request."),
                            errors |-> PyNone])
    /\ pc = "idle"
    /\ call = NoCall
    /\ ret = Outcome(Ok(PyNone), PyNone)
    /\ committed = [h \in Handlers |-> PyNone]

\* get_error_status_code(code), called on handler h
GetErrorStatusCode(h, code) ==
    /\ pc = "idle"
    /\ pc' = "returned"
    /\ call' = [op |-> "get_error_status_code", h |-> h, code |-> code]
    /\ ret' = Outcome(Ok(get_error_status_code(status[h], code)), PyNone)
    /\ UNCHANGED <<status, error_dict, committed>>

\* is_valid_error_dict(error_data), called on handler h
IsValidErrorDict(h, error_data) ==
    /\ pc = "idle"
    /\ pc' = "returned"
    /\ call' = [op |-> "is_valid_error_dict", h |-> h, error_data |-> error_data]
    /\ ret' = Outcome(Ok(is_valid_error_dict(error_data)), error_data)
    /\ UNCHANGED <<status, error_dict, committed>>

\* get_error_data(exception, error_data), called on handler h with an object
\* of the caller's
GetErrorData(h, exception, error_data) ==
    LET r == get_error_data(exception, error_data)
    IN  /\ pc = "idle"
        /\ pc' = "returned"
        /\ call' = [op |-> "get_error_data", h |-> h, exception |-> exception,
                    error_data |-> error_data]
        /\ ret' = Outcome(Ok(r.val), r.arg)
        /\ UNCHANGED <<status, error_dict, committed>>

\* every class of integer status code, and integers that are no status code
StatusCodes == {PyInt(n) : n \in -1..700}

\* is_valid_error_code(code), called on handler h
IsValidErrorCode(h, code) ==
    /\ pc = "idle"
    /\ pc' = "returned"
    /\ call' = [op |-> "is_valid_error_code", h |-> h, code |-> code]
    /\ ret' = Outcome(is_valid_error_code(code), PyNone)
    /\ UNCHANGED <<status, error_dict, committed>>

NextGetters ==
    \/ \E h \in Handlers, code \in GetterStatuses : GetErrorStatusCode(h, code)
    \/ \E h \in Handlers, p \in Payloads \cup NonMappings : IsValidErrorDict(h, p)
    \/ \E h \in Handlers, e \in GetterExceptions, p \in Payloads \cup NonMappings :
           GetErrorData(h, e, p)
    \/ \E h \in Handlers, code \in StatusCodes \cup {PyStr("x")} : IsValidErrorCode(h, code)
    \/ Return

SpecGetters == InitGetters /\ [][NextGetters]_vars

\* ------------------------------------------------------------------------
\* Several handler instances of the one class DjangoViewAPIMixin
\* ------------------------------------------------------------------------

AllHandlers == {"A", "B"}

\* DjangoViewAPIMixin(): the class defines no __init__, so the new instance has
\* no attribute of its own; status and error_dict are read from the class
\* until the instance assigns them.  The methods assign self.status (an
\* attribute of the instance from then on) and write into self.error_dict in
\* place, which stays the one dict of the class.
Construct(h) ==
    /\ pc = "idle"
    /\ h \notin DOMAIN status
    /\ pc' = "returned"
    /\ call' = [op |-> "construct", h |-> h]
    /\ ret' = Outcome(Ok(PyNone), PyNone)
    /\ status' = [x \in DOMAIN status \cup {h} |->
                     IF x = h THEN PyInt(DefaultStatus) ELSE status[x]]
    /\ committed' = [x \in DOMAIN committed \cup {h} |->
                        IF x = h THEN PyNone ELSE committed[x]]
    /\ UNCHANGED error_dict

\* mutant: raise_error is called with its default arguments
Stopper_default_arguments(h) ==
    /\ pc = "idle"
    /\ pc' = "returned"
    /\ call' = [op |-> "stopper", h |-> h]
    /\ status' = [status EXCEPT ![h] = PyInt(400)]
    /\ error_dict' = DictSet(DictSet(DictSet(error_dict, "title", PyStr("Error")),
                                     "message", PyStr("Unable to process request.")),
                             "errors", PyList(<<>>))
    /\ ret' = Outcome(Raised(HumanReadableError("Unable to process request.")), PyNone)
    /\ UNCHANGED committed

\* stopper(): self.raise_error(title="Testing", message="Stopper"), with the
\* defaults status=400 and errors=None of raise_error
Stopper(h) ==
    /\ pc = "idle"
    /\ pc' = "returned"
    /\ call' = [op |-> "stopper", h |-> h]
    /\ status' = [status EXCEPT ![h] = PyInt(400)]
    /\ error_dict' = DictSet(DictSet(DictSet(error_dict, "title", PyStr("Testing")),
                                     "message", PyStr("Stopper")),
                             "errors", PyList(<<>>))
    /\ ret' = Outcome(Raised(HumanReadableError("Stopper")), PyNone)
    /\ UNCHANGED committed

\* handler.error_dict, read through instance h: the attribute of the class
ErrorDictOf(h) == error_dict

NextTwo ==
    \/ \E h \in AllHandlers : Construct(h)
    \/ \E h \in DOMAIN status, st \in {PyInt(200), PyInt(403)} :
           SuccessResponse(h, PyDict([a |-> PyInt(1)]), st, PyNone)
    \/ \E h \in DOMAIN status, e \in {Exc("Exception", "X", FALSE), HumanReadableError("X")},
          d \in {PyNone, PyDict([title |-> PyStr("T"), message |-> PyStr("M")])},
          st \in {PyNone, PyInt(403)} :
           ErrorResponse(h, "off", e, d, st, PyNone)
    \/ \E h \in DOMAIN status, errors \in ErrorLists \cup {PyNone} :
           ServerErrorResponse(h, "off", Exc("Exception", "X", FALSE),
                               PyStr("Server Error"), PyStr("Please contact developer."),
                               PyInt(HTTP_500_INTERNAL_SERVER_ERROR), errors)
    \/ \E h \in DOMAIN status, errors \in ErrorLists \cup {PyNone} :
           RaiseError(h, PyStr("T"), PyStr("M"), PyInt(403), errors)
    \/ \E h \in DOMAIN status : GetDefaultErrorDict(h)
    \/ \E h \in DOMAIN status : Stopper(h)
    \/ Return

SpecTwo == Init /\ [][NextTwo]_vars

\* ------------------------------------------------------------------------
\* Abort and respond: the view catches what raise_error raised and passes it
\* to error_response
\* ------------------------------------------------------------------------

\* except Exception as exc: return self.error_response(exc), taken when the
\* raise_error call of the try block has raised; error_data, status and
\* content_type are omitted.  The call remembers the raise_error call it
\* answers.
ErrorResponseToRaised(debug) ==
    LET h == call.h
        r == error_response(status[h], error_dict, debug, ret.val, PyNone,
                            FALSE, PyNone, PyNone)
    IN  /\ pc = "returned"
        /\ call.op = "raise_error"
        /\ ret.raised
        /\ pc' = "returned"
        /\ call' = [op |-> "error_response", h |-> h, debug |-> debug,
                    exception |-> ret.val, error_data |-> PyNone,
                    status |-> PyNone, content_type |-> PyNone, raised_by |-> call]
        /\ ret' = Outcome(r.ret, r.arg)
        /\ error_dict' = r.error_dict
        /\ committed' = IF ~r.ret.raised /\ IsNone(committed[h])
                        THEN [committed EXCEPT ![h] = r.ret.val.status]
                        ELSE committed
        /\ UNCHANGED status

NextAbort ==
    \/ \E h \in Handlers, title \in Titles, message \in Messages \cup {PyStr("X")},
          st \in Statuses \cup {PyInt(404), PyInt(599)}, errors \in ErrorLists \cup {PyNone} :
           RaiseError(h, title, message, st, errors)
    \/ \E debug \in DebugModes : ErrorResponseToRaised(debug)
    \/ \E h \in Handlers, e \in {Exc("Exception", "X", FALSE), HumanReadableError("X")},
          d \in {PyNone, PyDict([title |-> PyStr("T"), message |-> PyStr("M")])},
          st \in {PyNone, PyInt(403)} :
           ErrorResponse(h, "off", e, d, st, PyNone)
    \/ \E h \in Handlers, errors \in ErrorLists \cup {PyNone} :
           ServerErrorResponse(h, "off", Exc("Exception", "X", FALSE),
                               PyStr("Server Error"), PyStr("Please contact developer."),
                               PyInt(HTTP_500_INTERNAL_SERVER_ERROR), errors)
    \/ Return

SpecAbort == Init /\ [][NextAbort]_vars

\* ------------------------------------------------------------------------
\* A handler on which nothing but error_response is called
\* ------------------------------------------------------------------------

NextErrorResponses ==
    \/ \E h \in Handlers, debug \in DebugModes, e \in Exceptions, d \in ErrorDataArgs,
          st \in Statuses \cup {PyNone}, ct \in ContentTypes :
           ErrorResponse(h, debug, e, d, st, ct)
    \/ Return

SpecErrorResponses == Init /\ [][NextErrorResponses]_vars

\* ------------------------------------------------------------------------
\* views/api.py: the legacy DjangoAPIMixin, with settings.DEBUG off
\* ------------------------------------------------------------------------

\* class attributes error_dict and default_error_dict: two dicts with the same
\* content
LegacyDefaultErrorDict ==
    PyDict([success |-> FALSE,
            title |-> PyStr("Something went wrong."),
            message |-> PyStr("Please contact system administrator."),
            errors |-> PyNone])

\* In this class self.error_dict is assigned by set_error_data, so it is a
\* reference that moves between objects.  For the specification of the legacy
\* class the variable error_dict holds the dict objects the handler can reach
\* and the name of the one self.error_dict is bound to:
\*   self               "error_dict", "default_error_dict" or "error_data"
\*   error_dict         the dict of the class attribute error_dict
\*   default_error_dict the dict of the class attribute default_error_dict
\*   error_data         the caller's dict self.error_dict was last bound to
LegacyObjects(self, class_dict, default_dict, error_data) ==
    [self |-> self, error_dict |-> class_dict, default_error_dict |-> default_dict,
     error_data |-> error_data]

\* the dict self.error_dict is bound to
LegacySelfErrorDict(objects) == objects[objects.self]

\* self.error_dict[k] = x
LegacySetItem(objects, k, x) ==
    [objects EXCEPT ![objects.self] = DictSet(@, k, x)]

\* self.error_dict = self.default_error_dict
LegacyBindDefault(objects) ==
    [objects EXCEPT !.self = "default_error_dict", !.error_data = PyNone]

\* DjangoAPIMixin.is_valid_error_dict: all((isinstance(error_data, dict),
\* "title" in error_data, "message" in error_data)); a failing `in` is caught
\* and gives False, and on a str, a list or a tuple `in` finds no such element
legacy_is_valid_error_dict(error_data) ==
    IF IsDict(error_data)
    THEN "title" \in DOMAIN error_data.v /\ "message" \in DOMAIN error_data.v
    ELSE FALSE

\* DjangoAPIMixin.get_content_type; CONTENT_TYPE is None in this class
legacy_get_content_type(content_type) ==
    IF ~IsNone(content_type) THEN content_type ELSE PyNone

\* DjangoAPIMixin.set_error_data(exception, error_data): the objects after the
\* call.  own says that error_data is self.error_dict itself.
legacy_set_error_data(objects, exception, error_data, own) ==
    LET passed == IF own THEN LegacySelfErrorDict(objects) ELSE error_data
        bound == IF legacy_is_valid_error_dict(passed)
                 THEN IF own THEN objects
                      ELSE [objects EXCEPT !.self = "error_data", !.error_data = error_data]
                 ELSE LegacyBindDefault(objects)
    IN  IF is_error_human_readable(exception)
        THEN LET exception_message == Str(exception)
             IN  IF exception_message.raised
                 THEN LegacyBindDefault(bound)
                 ELSE LegacySetItem(LegacySetItem(bound, "message", exception_message.val),
                                    "description", exception_message.val)
        ELSE bound

\* DjangoAPIMixin.set_error_status_code(code): self.status after the call
legacy_set_error_status_code(self_status, code) ==
    LET own == is_valid_error_code(self_status)
        requested == is_valid_error_code(code)
    IN  IF own.raised THEN PyInt(400)
        ELSE IF own.val THEN self_status
        ELSE IF requested.raised THEN PyInt(400)
        ELSE IF requested.val THEN code
        ELSE PyInt(400)

\* DjangoAPIMixin.error_response(exception, error_data, status, content_type):
\* the response, self.status and the objects after the call.  The response is
\* built from the arguments error_data and status, not from self.error_dict
\* and self.status; error_data is the caller's object as the call left it.
legacy_error_response(self_status, objects, exception, error_data, own, st, content_type) ==
    LET after == legacy_set_error_data(objects, exception, error_data, own)
        data == IF own THEN after[objects.self]
                ELSE IF legacy_is_valid_error_dict(error_data) /\ after.self = "error_data"
                     THEN after.error_data
                     ELSE error_data
    IN  [ret |-> Ok(get_response(data, st, legacy_get_content_type(content_type))),
         status |-> legacy_set_error_status_code(self_status, st),
         error_dict |-> after]

InitLegacy ==
    /\ status = [h \in Handlers |-> PyInt(200)]
    /\ error_dict = LegacyObjects("error_dict", LegacyDefaultErrorDict,
                                  LegacyDefaultErrorDict, PyNone)
    /\ pc = "idle"
    /\ call = NoCall
    /\ ret = Outcome(Ok(PyNone), PyNone)
    /\ committed = [h \in Handlers |-> PyNone]

LegacyErrorResponse(h, exception, error_data, st, content_type) ==
    LET r == legacy_error_response(status[h], error_dict, exception, error_data, FALSE,
                                   st, content_type)
    IN  /\ pc = "idle"
        /\ pc' = "returned"
        /\ call' = [op |-> "legacy_error_response", h |-> h, exception |-> exception,
                    error_data |-> error_data, status |-> st,
                    content_type |-> content_type]
        /\ ret' = Outcome(r.ret, PyNone)
        /\ status' = [status EXCEPT ![h] = r.status]
        /\ error_dict' = r.error_dict
        /\ UNCHANGED committed

\* DjangoAPIMixin.server_error_response(exception, message, title, status, errors)
LegacyServerErrorResponse(h, exception, message, title, st, errors) ==
    LET o1 == LegacySetItem(LegacySetItem(LegacySetItem(error_dict, "title", title),
                                          "message", message),
                            "description",
                            PyStr("Something went wrong. Please contact system administrator."))
        text == Str(exception)
        failed == ~Truthy(errors) /\ text.raised
        o2 == LegacySetItem(o1, "errors", IF Truthy(errors) THEN errors ELSE text.val)
        r == legacy_error_response(st, o2, exception, PyNone, TRUE, st, PyNone)
    IN  /\ pc = "idle"
        /\ pc' = "returned"
        /\ call' = [op |-> "legacy_server_error_response", h |-> h, exception |-> exception,
                    message |-> message, title |-> title, status |-> st, errors |-> errors]
        /\ ret' = IF failed THEN Outcome(text, PyNone) ELSE Outcome(r.ret, PyNone)
        /\ status' = [status EXCEPT ![h] = IF failed THEN st ELSE r.status]
        /\ error_dict' = IF failed THEN o1 ELSE r.error_dict
        /\ UNCHANGED committed

\* DjangoAPIMixin.raise_error(message, title, status, errors)
LegacyRaiseError(h, message, title, st, errors) ==
    /\ pc = "idle"
    /\ pc' = "returned"
    /\ call' = [op |-> "legacy_raise_error", h |-> h, message |-> message,
                title |-> title, status |-> st, errors |-> errors]
    /\ status' = [status EXCEPT ![h] = st]
    /\ error_dict' = LegacySetItem(LegacySetItem(LegacySetItem(LegacySetItem(
                         error_dict, "title", title), "message", message),
                         "description", message),
                         "errors", IF Truthy(errors) THEN errors ELSE PyList(<<>>))
    /\ ret' = Outcome(Raised(HumanReadableError(message.v)), PyNone)
    /\ UNCHANGED committed

\* error_data arguments of the legacy error_response: no mapping, a dict
\* without title, dicts with title and message
LegacyErrorDataArgs ==
    {PyNone, PyDict([foo |-> PyInt(1)]),
     PyDict([title |-> PyStr("T"), message |-> PyStr("M")]),
     PyDict([title |-> PyNone, message |-> PyNone])}

NextLegacy ==
    \/ \E h \in Handlers, e \in Exceptions, d \in LegacyErrorDataArgs,
          st \in Statuses, ct \in ContentTypes :
           LegacyErrorResponse(h, e, d, st, ct)
    \/ \E h \in Handlers, e \in Exceptions, errors \in ErrorLists \cup {PyNone} :
           LegacyServerErrorResponse(h, e, PyStr("Please contact system administrator."),
                                     PyStr("Something went wrong."),
                                     PyInt(HTTP_500_INTERNAL_SERVER_ERROR), errors)
    \/ \E h \in Handlers, errors \in ErrorLists \cup {PyNone} :
           LegacyRaiseError(h, PyStr("M"), PyStr("T"), PyInt(403), errors)
    \/ Return

SpecLegacy == InitLegacy /\ [][NextLegacy]_vars

\* ------------------------------------------------------------------------
\* testing/testcases.py: TestMixin.assertListsAreEqual
\* ------------------------------------------------------------------------

\* longest list that is compared
MaxLen == 3

ListItems == {PyInt(1), PyInt(2), PyStr("a")}

Lists == UNION {[1..n -> ListItems] : n \in 0..MaxLen}

\* item in items
Contains(items, item) == \E i \in 1..Len(items) : items[i] = item

\* items.count(item)
RECURSIVE count(_, _)
count(items, item) ==
    IF items = <<>> THEN 0
    ELSE (IF Head(items) = item THEN 1 ELSE 0) + count(Tail(items), item)

\* mutant: the numbers of occurrences are not compared
assertListsAreEqual_membership_only(first, second) ==
    LET list_from_first_side_equal ==
            \A i \in 1..Len(first) : Contains(second, first[i])
        list_from_second_side_equal ==
            \A i \in 1..Len(second) : Contains(first, second[i])
    IN  IF list_from_first_side_equal /\ list_from_second_side_equal
        THEN Ok(PyNone)
        ELSE Raised(Exc("AssertionError", "Lists are not equal!", FALSE))

assertListsAreEqual(first, second) ==
    LET list_from_first_side_equal ==
            \A i \in 1..Len(first) :
                /\ Contains(second, first[i])
                /\ count(first, first[i]) = count(second, first[i])
        list_from_second_side_equal ==
            \A i \in 1..Len(second) :
                /\ Contains(first, second[i])
                /\ count(first, second[i]) = count(second, second[i])
        lists_equal == list_from_first_side_equal /\ list_from_second_side_equal
    IN  IF lists_equal
        THEN Ok(PyNone)
        ELSE Raised(Exc("AssertionError", "Lists are not equal!", FALSE))

\* a test calls assertListsAreEqual(first, second)
AssertListsAreEqual(first, second) ==
    /\ pc = "idle"
    /\ pc' = "returned"
    /\ call' = [op |-> "assertListsAreEqual", first |-> first, second |-> second]
    /\ ret' = Outcome(assertListsAreEqual(first, second), PyNone)
    /\ UNCHANGED <<status, error_dict, committed>>

NextLists ==
    \/ \E first \in Lists, second \in Lists : AssertListsAreEqual(first, second)
    \/ Return

SpecLists == Init /\ [][NextLists]_vars

\* ------------------------------------------------------------------------
\* Properties
\* ------------------------------------------------------------------------

\* a client or server error code
InErrorRange(x) == IsInt(x) /\ x.v \in 400..599

\* a mapping whose title and message are both present and both strings
ValidPayload(p) ==
    /\ IsDict(p)
    /\ {"title", "message"} \subseteq DOMAIN p.v
    /\ IsStr(p.v["title"])
    /\ IsStr(p.v["message"])

DefaultPayload ==
    PyDict([title |-> PyStr("Error"),
            message |-> PyStr("Unable to process request."),
            errors |-> PyNone])

Returned(op) == pc = "returned" /\ call.op = op

\* the exception has a display string
HasDisplayString(e) == ~e.badstr

\* C1: error_response, server_error_response and success_response never
\* propagate an exception to their caller, whatever the exception, error_data,
\* status, content type and debug setting; only raise_error raises.
C1_OnlyRaiseErrorRaises ==
    (pc = "returned" /\ ret.raised) => call.op = "raise_error"

\* C2: the response returned by error_response carries a status code in
\* 400..599, in every handler state and for every requested status.
C2_ErrorResponseStatusInRange ==
    (Returned("error_response") /\ ~ret.raised) => InErrorRange(ret.val.status)

\* C2 witness: a non-integer status was requested on a handler that holds no
\* error code, and the response carries 400
C2_Witness ==
    /\ Returned("error_response")
    /\ ~ret.raised
    /\ call.status = PyStr("x")
    /\ ~InErrorRange(status[call.h])
    /\ ret.val.status = PyInt(400)

\* C3: the body of the response returned by error_response is a mapping in
\* which title and message are both present and both strings.
C3_ErrorResponseBodyValid ==
    (Returned("error_response") /\ ~ret.raised) => ValidPayload(ret.val.data)

\* C3 witness: error_response was given an invalid dict and answered with a
\* valid body
C3_Witness ==
    /\ Returned("error_response")
    /\ ~ret.raised
    /\ call.error_data = PyDict([title |-> PyNone, message |-> PyNone])
    /\ ret.val.data.v["title"] = PyStr("Error")

\* C4: on a handler with status c, get_error_status_code(r) returns c when c
\* is in 400..599, otherwise r when r is in 400..599, otherwise 400.
C4_GetErrorStatusCode ==
    (Returned("get_error_status_code") /\ IsInt(status[call.h])) =>
        /\ ~ret.raised
        /\ ret.val = IF InErrorRange(status[call.h]) THEN status[call.h]
                     ELSE IF InErrorRange(call.code) THEN call.code
                     ELSE PyInt(400)

\* C4 witness: current 403, requested 400, answer 403
C4_Witness ==
    /\ Returned("get_error_status_code")
    /\ status[call.h] = PyInt(403)
    /\ call.code = PyInt(400)
    /\ ret.val = PyInt(403)

\* C5 as stated: once an error_response call has returned an error status s,
\* every later error_response call on the same handler returns s.
C5_FirstReturnedStatusSticks ==
    (Returned("error_response") /\ ~ret.raised) =>
        ret.val.status = committed[call.h]

\* C5 amended: while the status field of the handler holds an error code s,
\* every error_response call on it returns s, also when it requests another
\* valid error status.
C5_HeldStatusSticks ==
    (Returned("error_response") /\ ~ret.raised /\ InErrorRange(status[call.h])) =>
        ret.val.status = status[call.h]

\* C5 witness: the handler holds 403, 500 was requested, 403 was returned
C5_Witness ==
    /\ Returned("error_response")
    /\ ~ret.raised
    /\ status[call.h] = PyInt(403)
    /\ call.status = PyInt(500)
    /\ ret.val.status = PyInt(403)

\* C6 as stated: once the status field of a handler holds a value in 400..599,
\* no later call changes it.
C6_StatusWriteOnce ==
    [][\A h \in Handlers : InErrorRange(status[h]) => status'[h] = status[h]]_vars

\* C6 amended: error_response and success_response never change the status
\* field, so an error code it holds stays across them; raise_error and
\* server_error_response set it to their status argument.
C6_StatusChangedOnlyBySetters ==
    [][\A h \in Handlers :
          /\ (pc' = "returned" /\ call'.op \in {"error_response", "success_response"})
                 => status'[h] = status[h]
          /\ (pc' = "returned" /\ call'.op \in {"raise_error", "server_error_response"}
                 /\ call'.h = h)
                 => status'[h] = call'.status]_vars

\* C6 witness: an earlier error_response returned 403, success_response was
\* called since, and the handler still holds 403
C6_Witness ==
    /\ Returned("success_response")
    /\ ~ret.raised
    /\ committed[call.h] = PyInt(403)
    /\ status[call.h] = PyInt(403)

\* C7: is_valid_error_dict(p) is true exactly when p is a mapping whose title
\* and message are both present and both strings, and never raises.
C7_IsValidErrorDict ==
    Returned("is_valid_error_dict") =>
        /\ ~ret.raised
        /\ ret.val = ValidPayload(call.error_data)

\* C7 witness: a dict with a string title and no message is answered false
C7_Witness ==
    /\ Returned("is_valid_error_dict")
    /\ call.error_data = PyDict([title |-> PyStr("T")])
    /\ ret.val = FALSE

\* C8: for a valid payload p, get_error_data(e, p) returns a payload with the
\* title and the errors of p, whose message is the display string of e when e
\* is a HumanReadableError and the message of p otherwise.
C8_GetErrorDataValid ==
    (/\ Returned("get_error_data")
     /\ ValidPayload(call.error_data)
     /\ HasDisplayString(call.exception)) =>
        /\ ~ret.raised
        /\ IsDict(ret.val)
        /\ DOMAIN ret.val.v = DOMAIN call.error_data.v
        /\ \A k \in DOMAIN ret.val.v \ {"message"} : ret.val.v[k] = call.error_data.v[k]
        /\ ret.val.v["message"] =
               IF call.exception.cls = "HumanReadableError"
               THEN PyStr(call.exception.msg)
               ELSE call.error_data.v["message"]

\* C8 witness: a human readable error with text X and a valid payload with
\* errors: the message is X, title and errors are kept
C8_Witness ==
    /\ Returned("get_error_data")
    /\ call.exception = HumanReadableError("X")
    /\ call.error_data = PyDict([title |-> PyStr("T"), message |-> PyStr("M"),
                                 errors |-> PyList(<<"e">>)])
    /\ ret.val = PyDict([title |-> PyStr("T"), message |-> PyStr("X"),
                         errors |-> PyList(<<"e">>)])

\* C9: for an invalid payload p, get_error_data(e, p) returns the default
\* payload, with the display string of e as message when e is a
\* HumanReadableError, and leaves p as it was.
C9_GetErrorDataInvalid ==
    (/\ Returned("get_error_data")
     /\ ~ValidPayload(call.error_data)
     /\ HasDisplayString(call.exception)) =>
        /\ ~ret.raised
        /\ ret.val = PyDict([title |-> PyStr("Error"),
                             message |-> IF call.exception.cls = "HumanReadableError"
                                         THEN PyStr(call.exception.msg)
                                         ELSE PyStr("Unable to process request."),
                             errors |-> PyNone])
        /\ ret.arg = call.error_data

\* C9 witness: title and message None with a human readable error
C9_Witness ==
    /\ Returned("get_error_data")
    /\ call.exception = HumanReadableError("X")
    /\ call.error_data = PyDict([title |-> PyNone, message |-> PyNone])
    /\ ret.val.v["message"] = PyStr("X")
    /\ ret.arg = PyDict([title |-> PyNone, message |-> PyNone])

\* C10: get_error_data never raises, and when taking the display string of a
\* HumanReadableError fails it returns exactly the default payload.
C10_GetErrorDataFallback ==
    Returned("get_error_data") =>
        /\ ~ret.raised
        /\ (call.exception.cls = "HumanReadableError" /\ ~HasDisplayString(call.exception))
               => (ret.val = DefaultPayload /\ ret.arg = call.error_data)

\* C10 witness: a valid payload and a human readable error whose __str__
\* fails
C10_Witness ==
    /\ Returned("get_error_data")
    /\ call.exception = Exc("HumanReadableError", "X", TRUE)
    /\ ValidPayload(call.error_data)
    /\ ret.val = DefaultPayload


\* C11: raise_error always raises a HumanReadableError whose display string
\* is message, and leaves the handler with status = status, error_dict.title =
\* title, error_dict.message = message and error_dict.errors = errors (an
\* empty list when errors is omitted), whatever the handler held before.
C11_RaiseErrorSetsAndRaises ==
    Returned("raise_error") =>
        /\ ret.raised
        /\ ret.val.cls = "HumanReadableError"
        /\ Str(ret.val) = Ok(call.message)
        /\ status[call.h] = call.status
        /\ error_dict.v["title"] = call.title
        /\ error_dict.v["message"] = call.message
        /\ error_dict.v["errors"] =
               IF IsNone(call.errors) THEN PyList(<<>>) ELSE call.errors

\* C11 witness: raise_error(status 500, errors omitted) on a handler on which
\* error_response had returned 403 before
C11_Witness ==
    /\ Returned("raise_error")
    /\ committed[call.h] = PyInt(403)
    /\ call.status = PyInt(500)
    /\ IsNone(call.errors)
    /\ status[call.h] = PyInt(500)
    /\ error_dict.v["errors"] = PyList(<<>>)

\* C12: for an integer status s, success_response returns a response whose
\* status is s when 200 <= s <= 299 and 200 otherwise, and whose body is data
\* unchanged.
C12_SuccessResponse ==
    (Returned("success_response") /\ IsInt(call.status)) =>
        /\ ~ret.raised
        /\ ret.val.status = IF call.status.v \in 200..299 THEN call.status ELSE PyInt(200)
        /\ ret.val.data = call.data

\* C12 witness: status 701 becomes 200, the body is the data
C12_Witness ==
    /\ Returned("success_response")
    /\ call.status = PyInt(701)
    /\ call.data = PyDict([a |-> PyInt(1)])
    /\ ret.val.status = PyInt(200)
    /\ ret.val.data = PyDict([a |-> PyInt(1)])


\* C13 as stated (for exceptions that have a display string):
\* server_error_response sets the errors field to the caller-supplied list
\* whenever the caller supplies one, whatever its length, and to [str(e)] when
\* errors is absent.
C13_ErrorsSuppliedOrDefault ==
    (Returned("server_error_response") /\ HasDisplayString(call.exception)) =>
        error_dict.v["errors"] =
            IF IsNone(call.errors) THEN PyList(<<call.exception.msg>>) ELSE call.errors

\* C13 amended: server_error_response sets the errors field to the
\* caller-supplied list when that list is not empty, and to [str(e)] when
\* errors is absent or an empty list; when in that case str(e) fails, the call
\* raises.
C13_ErrorsNonEmptyOrDefault ==
    Returned("server_error_response") =>
        IF Truthy(call.errors)
        THEN error_dict.v["errors"] = call.errors
        ELSE IF HasDisplayString(call.exception)
             THEN error_dict.v["errors"] = PyList(<<call.exception.msg>>)
             ELSE ret.raised

\* C13 witness: an empty errors list was supplied and the errors field holds
\* the text of the exception
C13_Witness ==
    /\ Returned("server_error_response")
    /\ call.errors = PyList(<<>>)
    /\ ~ret.raised
    /\ error_dict.v["errors"] = PyList(<<"X">>)
    /\ ret.val.data.v["errors"] = PyList(<<"X">>)

\* C14 as stated (for exceptions that have a display string): for string
\* title and message and a status in 400..599, server_error_response returns a
\* response with exactly that status, title and message, whatever the
\* exception and the prior state of the handler.
C14_ServerErrorResponseAsAsked ==
    (/\ Returned("server_error_response")
     /\ HasDisplayString(call.exception)
     /\ InErrorRange(call.status)) =>
        /\ ~ret.raised
        /\ ret.val.status = call.status
        /\ ret.val.data.v["title"] = call.title
        /\ ret.val.data.v["message"] = call.message

\* C14 amended: a response server_error_response returns for a status in
\* 400..599 has exactly that status.  Its body has exactly that title; its
\* message is that message when the exception is no HumanReadableError and the
\* display string of the exception when it is one; for a HumanReadableError
\* whose display string cannot be taken the body is the default payload.  The
\* call returns whenever the exception has a display string.
C14_ServerErrorResponseHumanMessage ==
    (Returned("server_error_response") /\ InErrorRange(call.status)) =>
        /\ HasDisplayString(call.exception) => ~ret.raised
        /\ ~ret.raised =>
              /\ ret.val.status = call.status
              /\ IF call.exception.cls # "HumanReadableError"
                 THEN /\ ret.val.data.v["title"] = call.title
                      /\ ret.val.data.v["message"] = call.message
                 ELSE IF HasDisplayString(call.exception)
                      THEN /\ ret.val.data.v["title"] = call.title
                           /\ ret.val.data.v["message"] = PyStr(call.exception.msg)
                      ELSE ret.val.data = DefaultPayload

\* C14 witness: the defaults with a human readable error on a handler that
\* held another status when an earlier error_response returned: status 500,
\* title Server Error, message the text of the exception
C14_Witness ==
    /\ Returned("server_error_response")
    /\ call.exception = HumanReadableError("X")
    /\ call.title = PyStr("Server Error")
    /\ call.message = PyStr("Please contact developer.")
    /\ call.status = PyInt(HTTP_500_INTERNAL_SERVER_ERROR)
    /\ committed[call.h] = PyInt(403)
    /\ ~ret.raised
    /\ ret.val.status = PyInt(500)
    /\ ret.val.data.v["title"] = PyStr("Server Error")
    /\ ret.val.data.v["message"] = PyStr("X")


\* the supplied payload passed validation: error_response returned it
PayloadAccepted == ~IsNone(call.error_data) /\ ~ret.raised /\ ret.val.data = ret.arg

\* C17 as stated: after error_response is called with an error_data payload
\* that passes validation, the handler's error_dict equals the payload that
\* was returned in the response.
C17_ErrorDictOverwritten ==
    (Returned("error_response") /\ PayloadAccepted) => error_dict = ret.val.data

\* C17 amended: error_response called with an error_data payload of the
\* caller leaves the handler's error_dict as it was; the payload is returned in
\* the response only.
C17_ErrorDictKept ==
    [][(pc = "idle" /\ call'.op = "error_response" /\ ~IsNone(call'.error_data))
           => error_dict' = error_dict]_vars

\* C17 witness: a valid payload was returned in the response while the
\* handler's error_dict is still the default payload
C17_Witness ==
    /\ Returned("error_response")
    /\ PayloadAccepted
    /\ ValidPayload(call.error_data)
    /\ ret.val.data = PyDict([title |-> PyStr("T"), message |-> PyStr("M")])
    /\ error_dict = DefaultPayload

\* texts an exception may carry
ExceptionTexts == {"X", "Y"}

\* C18: for an exception that is no HumanReadableError, error_response called
\* from the same handler state with the same arguments but another text of the
\* exception has the same outcome, with the same title and message in the body.
C18_TextNotShown ==
    [][(/\ pc = "idle"
        /\ call'.op = "error_response"
        /\ call'.exception.cls # "HumanReadableError")
           => \A m \in ExceptionTexts :
                LET other == Exc(call'.exception.cls, m, call'.exception.badstr)
                    r == error_response(status[call'.h], error_dict, call'.debug, other,
                                        call'.error_data, FALSE, call'.status,
                                        call'.content_type).ret
                IN  /\ r.raised = ret'.raised
                    /\ ~r.raised =>
                          /\ r.val.data.v["title"] = ret'.val.data.v["title"]
                          /\ r.val.data.v["message"] = ret'.val.data.v["message"]]_vars

\* C18 witness: a plain exception with text X got a response whose message is
\* the one of the payload
C18_Witness ==
    /\ Returned("error_response")
    /\ call.exception = Exc("Exception", "X", FALSE)
    /\ ~ret.raised
    /\ ValidPayload(call.error_data)
    /\ ret.val.data.v["title"] = PyStr("T")
    /\ ret.val.data.v["message"] = PyStr("M")

\* C19: get_default_error_dict returns the default payload, after any
\* sequence of calls on the handler.
C19_DefaultErrorDictFixed ==
    Returned("get_default_error_dict") => (~ret.raised /\ ret.val = DefaultPayload)

\* C19 witness: get_default_error_dict returned the default payload after
\* get_error_data had written the text of a human readable error into the
\* handler's payload, which started as the default payload
C19_Witness ==
    /\ Returned("get_default_error_dict")
    /\ error_dict = DictSet(DefaultPayload, "message", PyStr("X"))
    /\ ret.val = DefaultPayload

\* C20: on a handler whose status is an integer that is no error code, for an
\* exception that is no HumanReadableError, a valid error_data d and a status
\* s in 400..599, error_response returns a response with status s whose body
\* is d.
C20_ErrorResponseAsAsked ==
    (/\ Returned("error_response")
     /\ IsInt(status[call.h])
     /\ ~InErrorRange(status[call.h])
     /\ call.exception.cls # "HumanReadableError"
     /\ ValidPayload(call.error_data)
     /\ InErrorRange(call.status)) =>
        /\ ~ret.raised
        /\ ret.val.status = call.status
        /\ ret.val.data = call.error_data


\* C15: with two distinct handler instances a and b, no raise_error,
\* server_error_response or error_response call on a changes the status or the
\* error_dict observed through b.
C15_InstanceScoped ==
    [][\A a \in DOMAIN status, b \in DOMAIN status :
          (/\ a # b
           /\ pc = "idle"
           /\ call'.op \in {"raise_error", "server_error_response", "error_response"}
           /\ call'.h = a)
              => /\ status'[b] = status[b]
                 /\ ErrorDictOf(b)' = ErrorDictOf(b)]_vars

\* C16: every newly constructed handler starts with status 200 and error_dict
\* equal to the default payload, whatever was done earlier on other handlers.
C16_FreshHandlerDefaults ==
    Returned("construct") =>
        /\ status[call.h] = PyInt(200)
        /\ ErrorDictOf(call.h) = DefaultPayload


\* C21: on a handler holding the default payload and status 200, error_response
\* called with error_data and status omitted and an exception that is no
\* HumanReadableError returns status 400 and a body equal to the default
\* payload.
C21_ErrorResponseDefaults ==
    (/\ Returned("error_response")
     /\ IsNone(call.error_data)
     /\ IsNone(call.status)
     /\ call.exception.cls # "HumanReadableError"
     /\ status[call.h] = PyInt(DefaultStatus)
     /\ error_dict = DefaultPayload) =>
        /\ ~ret.raised
        /\ ret.val.status = PyInt(400)
        /\ ret.val.data = DefaultPayload

\* C22: stopper always raises a HumanReadableError and leaves the handler with
\* title Testing, message Stopper and status 400, whatever its state was.
C22_Stopper ==
    Returned("stopper") =>
        /\ ret.raised
        /\ ret.val.cls = "HumanReadableError"
        /\ error_dict.v["title"] = PyStr("Testing")
        /\ error_dict.v["message"] = PyStr("Stopper")
        /\ status[call.h] = PyInt(400)

\* C22 witness: stopper raised on a handler from which an error_response had
\* returned status 403 before
C22_Witness ==
    /\ Returned("stopper")
    /\ committed[call.h] = PyInt(403)
    /\ ret.raised
    /\ Str(ret.val) = Ok(PyStr("Stopper"))
    /\ error_dict.v["title"] = PyStr("Testing")
    /\ status[call.h] = PyInt(400)

\* C23: for every integer code, is_valid_error_code is true exactly when
\* 400 <= code <= 599.
C23_IsValidErrorCode ==
    (Returned("is_valid_error_code") /\ IsInt(call.code)) =>
        /\ ~ret.raised
        /\ ret.val = (400 <= call.code.v /\ call.code.v <= 599)

\* C23 witness: the server error 599 is a valid error code
C23_Witness ==
    /\ Returned("is_valid_error_code")
    /\ call.code = PyInt(599)
    /\ ret.val = TRUE

\* C24: get_content_type returns its argument when that is not None and
\* CONTENT_TYPE when it is None, and success_response and error_response stamp
\* the response they return with that content type.
C24_ContentType ==
    LET resolved == IF IsNone(call.content_type) THEN CONTENT_TYPE ELSE call.content_type
    IN  /\ Returned("get_content_type") => (~ret.raised /\ ret.val = resolved)
        /\ (/\ Returned("success_response") \/ Returned("error_response")
            /\ ~ret.raised) => ret.val.content_type = resolved

\* C24 witness: the empty content type was returned as it is
C24_Witness ==
    /\ Returned("get_content_type")
    /\ call.content_type = PyStr("")
    /\ ret.val = PyStr("")

\* C29: success_response leaves the status and the error_dict of the handler
\* as they are, and with status 201 it returns status 201 with the data as
\* body whatever the handler holds.
C29_SuccessResponseFrame ==
    [][(pc = "idle" /\ call'.op = "success_response") =>
          /\ status' = status
          /\ error_dict' = error_dict
          /\ call'.status = PyInt(201) =>
                /\ ~ret'.raised
                /\ ret'.val.status = PyInt(201)
                /\ ret'.val.data = call'.data]_vars

\* C29 witness: success_response returned 201 on a handler holding the error
\* status 403 and the payload raise_error wrote
C29_Witness ==
    /\ Returned("success_response")
    /\ status[call.h] = PyInt(403)
    /\ error_dict.v["title"] = PyStr("T")
    /\ error_dict.v["errors"] = PyList(<<>>)
    /\ call.status = PyInt(201)
    /\ ret.val.status = PyInt(201)
    /\ ret.val.data = call.data


\* an error_response call that answers a raise_error call on the same handler
AnswersRaiseError ==
    /\ Returned("error_response")
    /\ "raised_by" \in DOMAIN call
    /\ IsStr(call.raised_by.title)
    /\ IsStr(call.raised_by.message)
    /\ InErrorRange(call.raised_by.status)

\* C26 as stated: when raise_error(title, message, status, errors), with
\* string title and message and a status in 400..599, has raised and the
\* exception is passed to error_response on the same handler with error_data
\* and status omitted, the response has that status and a body with that
\* title, that message and that errors value.
C26_AbortAndRespond ==
    AnswersRaiseError =>
        /\ ~ret.raised
        /\ ret.val.status = call.raised_by.status
        /\ ret.val.data.v["title"] = call.raised_by.title
        /\ ret.val.data.v["message"] = call.raised_by.message
        /\ ret.val.data.v["errors"] = call.raised_by.errors

\* C26 amended: ... the response has that status and a body with that title,
\* that message and that errors list, the empty list when errors is None or
\* omitted.
C26_AbortAndRespondErrorsList ==
    AnswersRaiseError =>
        /\ ~ret.raised
        /\ ret.val.status = call.raised_by.status
        /\ ret.val.data.v["title"] = call.raised_by.title
        /\ ret.val.data.v["message"] = call.raised_by.message
        /\ ret.val.data.v["errors"] =
               IF IsNone(call.raised_by.errors) THEN PyList(<<>>) ELSE call.raised_by.errors

\* C26 witness: raise_error with status 404 and no errors on a handler that
\* held status 500, answered by status 404 and an empty errors list
C26_Witness ==
    /\ AnswersRaiseError
    /\ committed[call.h] = PyInt(500)
    /\ call.raised_by.status = PyInt(404)
    /\ IsNone(call.raised_by.errors)
    /\ ret.val.status = PyInt(404)
    /\ ret.val.data.v["message"] = PyStr("M")
    /\ ret.val.data.v["errors"] = PyList(<<>>)

\* display strings of the human readable errors that are handled
HumanReadableTexts == {PyStr(e.msg) : e \in {x \in Exceptions : x.cls = "HumanReadableError"}}

\* C27: in a sequence of error_response calls only, the display string of a
\* HumanReadableError is never the message of the response to a call made
\* with another kind of exception and with error_data omitted.
C27_NoMessageLeak ==
    (/\ Returned("error_response")
     /\ call.exception.cls # "HumanReadableError"
     /\ IsNone(call.error_data)
     /\ ~ret.raised) =>
        ret.val.data.v["message"] \notin HumanReadableTexts


\* C25 (for error_data arguments that are mappings and integer status
\* arguments): the response the legacy DjangoAPIMixin.error_response returns
\* has a status in 400..599 and a body that is a mapping containing title and
\* message.
C25_LegacyErrorResponseNormalized ==
    (/\ Returned("legacy_error_response")
     /\ IsDict(call.error_data)
     /\ IsInt(call.status)
     /\ ~ret.raised) =>
        /\ InErrorRange(ret.val.status)
        /\ legacy_is_valid_error_dict(ret.val.data)

\* C28: DjangoAPIMixin.default_error_dict is never modified by error_response,
\* server_error_response and raise_error calls.
C28_DefaultErrorDictUntouched ==
    error_dict.default_error_dict = LegacyDefaultErrorDict


\* the number of positions of items that hold item
Occurrences(items, item) == Cardinality({i \in 1..Len(items) : items[i] = item})

\* the two lists hold every element the same number of times
SameMultiset(first, second) ==
    \A item \in ListItems : Occurrences(first, item) = Occurrences(second, item)

\* C30: assertListsAreEqual(first, second) passes exactly when the two lists
\* are equal as multisets and raises AssertionError otherwise; its outcome is
\* the one of assertListsAreEqual(second, first).
C30_AssertListsAreEqual ==
    Returned("assertListsAreEqual") =>
        /\ ~ret.raised <=> SameMultiset(call.first, call.second)
        /\ ret.raised => ret.val.cls = "AssertionError"
        /\ ret.raised = assertListsAreEqual(call.second, call.first).raised

\* C30 witness: two lists with the same elements in another order passed
C30_Witness ==
    /\ Returned("assertListsAreEqual")
    /\ call.first = <<PyInt(1), PyStr("a"), PyInt(1)>>
    /\ call.second = <<PyStr("a"), PyInt(1), PyInt(1)>>
    /\ ~ret.raised

====
